---------------------------- MODULE Spec2Model ----------------------------
(***************************************************************************)
(* Model of src/app.py, the healthcare airflow calculator:                 *)
(*   load_code_standards    segmentation of the reference grid's row 0     *)
(*   extract_standard_data  extraction of one standard's table             *)
(*   calculate_airflow      the per-room calculation                       *)
(*   the module-level script (lines 146-205): selection, extraction,       *)
(*   room-type assignment and the batch of per-room calculations.          *)
(*                                                                         *)
(* Text is a sequence of one-character strings, so that upper(), strip(),  *)
(* replace() and the substring test are computed, not assumed.  A cell of  *)
(* a DataFrame or Series is a record [k, s, n, d]: k = "none" (Python      *)
(* None), "nan" (a missing value), "str" (text s) or "num" (the number     *)
(* n/d in lowest terms, d > 0).  Floating-point numbers are modelled by    *)
(* exact rationals plus NaN; infinities and rounding error of the binary   *)
(* representation are outside the model.                                   *)
(***************************************************************************)
EXTENDS Integers, Sequences, FiniteSets, TLC

VARIABLES pc, df_raw, rng, standards_map, selected_std_name, df_std,
          available_types, edited_df, sat, k, results, final_df, locals, err

vars == <<pc, df_raw, rng, standards_map, selected_std_name, df_std,
          available_types, edited_df, sat, k, results, final_df, locals, err>>

(***************************************************************************)
(* Text                                                                    *)
(***************************************************************************)
UpperChar(c) ==
    CASE c = "a" -> "A" [] c = "b" -> "B" [] c = "c" -> "C" [] c = "d" -> "D"
      [] c = "e" -> "E" [] c = "f" -> "F" [] c = "g" -> "G" [] c = "h" -> "H"
      [] c = "i" -> "I" [] c = "j" -> "J" [] c = "k" -> "K" [] c = "l" -> "L"
      [] c = "m" -> "M" [] c = "n" -> "N" [] c = "o" -> "O" [] c = "p" -> "P"
      [] c = "q" -> "Q" [] c = "r" -> "R" [] c = "s" -> "S" [] c = "t" -> "T"
      [] c = "u" -> "U" [] c = "v" -> "V" [] c = "w" -> "W" [] c = "x" -> "X"
      [] c = "y" -> "Y" [] c = "z" -> "Z" [] OTHER -> c

Upper(s) == [i \in 1..Len(s) |-> UpperChar(s[i])]

\* Python's  sub in s
Contains(sub, s) ==
    \E i \in 0..(Len(s) - Len(sub)) : SubSeq(s, i + 1, i + Len(sub)) = sub

IsSpace(c) == c \in {" ", "\n", "\t", "\r"}

RECURSIVE LStrip(_)
LStrip(s) == IF s # <<>> /\ IsSpace(Head(s)) THEN LStrip(Tail(s)) ELSE s

RECURSIVE RStrip(_)
RStrip(s) ==
    IF s # <<>> /\ IsSpace(s[Len(s)]) THEN RStrip(SubSeq(s, 1, Len(s) - 1)) ELSE s

Strip(s) == RStrip(LStrip(s))

\* s.replace('\n', ' ')
ReplaceNewline(s) == [i \in 1..Len(s) |-> IF s[i] = "\n" THEN " " ELSE s[i]]

DigitChars == <<"0", "1", "2", "3", "4", "5", "6", "7", "8", "9">>

IsDigit(c) == \E i \in 1..10 : DigitChars[i] = c

DigitVal(c) == (CHOOSE i \in 1..10 : DigitChars[i] = c) - 1

RECURSIVE NatToText(_)
NatToText(n) ==
    IF n < 10 THEN <<DigitChars[n + 1]>>
    ELSE NatToText(n \div 10) \o <<DigitChars[(n % 10) + 1]>>

RECURSIVE TextToNat(_)
TextToNat(s) ==
    IF s = <<>> THEN 0
    ELSE 10 * TextToNat(SubSeq(s, 1, Len(s) - 1)) + DigitVal(s[Len(s)])

(***************************************************************************)
(* Cells and numbers                                                       *)
(***************************************************************************)
Abs(x) == IF x < 0 THEN -x ELSE x

RECURSIVE GCD(_, _)
GCD(a, b) == IF b = 0 THEN a ELSE GCD(b, a % b)

None == [k |-> "none", s |-> <<>>, n |-> 0, d |-> 1]

NaN == [k |-> "nan", s |-> <<>>, n |-> 0, d |-> 1]

Str(t) == [k |-> "str", s |-> t, n |-> 0, d |-> 1]

\* the number n/d (d # 0), in lowest terms with a positive denominator
Rat(n, d) ==
    LET g == GCD(Abs(n), Abs(d))
        sg == IF d < 0 THEN -1 ELSE 1
    IN  [k |-> "num", s |-> <<>>, n |-> (sg * n) \div g, d |-> Abs(d) \div g]

Num(n) == Rat(n, 1)

IsNaN(c) == c.k = "nan"

\* pd.notna(val)
NotNa(c) == c.k \notin {"nan", "none"}

\* isinstance(val, str)
IsStr(c) == c.k = "str"

\* str(val)
StrOf(c) ==
    CASE c.k = "str" -> c.s
      [] c.k = "nan" -> <<"n", "a", "n">>
      [] c.k = "none" -> <<"N", "o", "n", "e">>
      [] OTHER -> IF c.n < 0 THEN <<"-">> \o NatToText(-c.n) ELSE NatToText(c.n)

\* Python truthiness of a value:  if current_std:
Truthy(c) ==
    CASE c.k = "none" -> FALSE
      [] c.k = "str" -> c.s # <<>>
      [] c.k = "num" -> c.n # 0
      [] OTHER -> TRUE

\* IEEE arithmetic on numbers and NaN: NaN propagates, comparisons with NaN
\* are false.
FMul(a, b) == IF IsNaN(a) \/ IsNaN(b) THEN NaN ELSE Rat(a.n * b.n, a.d * b.d)

FSub(a, b) ==
    IF IsNaN(a) \/ IsNaN(b) THEN NaN ELSE Rat(a.n * b.d - b.n * a.d, a.d * b.d)

\* a / b for b # 0
FDiv(a, b) == IF IsNaN(a) \/ IsNaN(b) THEN NaN ELSE Rat(a.n * b.d, a.d * b.n)

FLe(a, b) == ~IsNaN(a) /\ ~IsNaN(b) /\ a.n * b.d <= b.n * a.d

FLt(a, b) == ~IsNaN(a) /\ ~IsNaN(b) /\ a.n * b.d < b.n * a.d

FGt(a, b) == FLt(b, a)

FGe(a, b) == FLe(b, a)

IsZero(a) == ~IsNaN(a) /\ a.n = 0

\* Python's round(x, 0) on a float: to the nearest whole number, ties to even;
\* NaN stays NaN.
PyRound(a) ==
    IF IsNaN(a) THEN NaN
    ELSE LET q == a.n \div a.d
             r == a.n - q * a.d
         IN  IF 2 * r < a.d THEN Num(q)
             ELSE IF 2 * r > a.d THEN Num(q + 1)
             ELSE IF q % 2 = 0 THEN Num(q) ELSE Num(q + 1)

(***************************************************************************)
(* Series and frames.  A Series is [index, vals] (two sequences of equal   *)
(* length); a DataFrame is [columns, rows], each row a sequence of cells.  *)
(***************************************************************************)
HasKey(index, key) == \E i \in 1..Len(index) : index[i] = key

\* Series.get(key, default) for a Series whose labels are distinct
SeriesGet(ser, key, default) ==
    IF HasKey(ser.index, key)
    THEN ser.vals[CHOOSE i \in 1..Len(ser.index) : ser.index[i] = key]
    ELSE default


(***************************************************************************)
(* Literal texts of the source                                             *)
(***************************************************************************)
T_TABLE ==
    <<"T", "A", "B", "L", "E">>
T_FGI ==
    <<"F", "G", "I">>
T_YES ==
    <<"Y", "E", "S">>
T_NO ==
    <<"N", "O">>
T_NR ==
    <<"N", "R">>
COL_ROOM_NAME ==
    <<"R", "O", "O", "M", " ", "N", "A", "M", "E">>
COL_MIN_TOTAL_ACH ==
    <<"C", "O", "D", "E", " ", "M", "I", "N", "I", "M", "U", "M", " ", "T", "O", "T", "A", "L", " ", "A", "I", "R", " ", "C", "H", "A", "N", "G", "E", "S">>
COL_MIN_OA_ACH ==
    <<"C", "O", "D", "E", " ", "M", "I", "N", "I", "M", "U", "M", " ", "O", "U", "T", "D", "O", "O", "R", " ", "A", "I", "R", " ", "C", "H", "A", "N", "G", "E", "S">>
COL_PRESSURE ==
    <<"C", "o", "d", "e", " ", "P", "r", "e", "s", "s", "u", "r", "e">>
COL_DESIGN_TEMP ==
    <<"R", "O", "O", "M", " ", "D", "E", "S", "I", "G", "N", " ", "T", "E", "M", "P", "E", "R", "A", "T", "U", "R", "E", " ", "(", "C", "O", "O", "L", "I", "N", "G", ")">>
COL_OFFSET ==
    <<"P", "r", "e", "s", "s", "u", "r", "i", "z", "a", "t", "i", "o", "n", " ", "/", " ", "R", "o", "o", "m", " ", "O", "f", "f", "s", "e", "t", " ", "(", "C", "F", "M", ")">>
COL_EXHAUST ==
    <<"1", "0", "0", "%", " ", "E", "x", "h", "a", "u", "s", "t">>
COL_ROOM_NUMBER ==
    <<"R", "O", "O", "M", " ", "N", "U", "M", "B", "E", "R">>
COL_ARCH_ROOM_NAME ==
    <<"A", "R", "C", "H", " ", "R", "O", "O", "M", " ", "N", "A", "M", "E">>
COL_ROOM_VOLUME ==
    <<"R", "O", "O", "M", " ", "V", "O", "L", "U", "M", "E">>
COL_COOLING_LOAD ==
    <<"E", "n", "v", "e", "l", "o", "p", "e", " ", "G", "a", "i", "n", " ", "-", " ", "C", "o", "o", "l", "i", "n", "g", " ", "(", "B", "T", "U", "H", ")">>
COL_ASSIGNED ==
    <<"A", "s", "s", "i", "g", "n", "e", "d", " ", "R", "o", "o", "m", " ", "T", "y", "p", "e">>
F_ERROR ==
    <<"E", "r", "r", "o", "r">>
MSG_NOT_FOUND ==
    <<"R", "o", "o", "m", " ", "T", "y", "p", "e", " ", "N", "o", "t", " ", "F", "o", "u", "n", "d">>
F_STANDARD_USED ==
    <<"S", "t", "a", "n", "d", "a", "r", "d", " ", "U", "s", "e", "d">>
F_MIN_TOTAL_ACH ==
    <<"M", "i", "n", " ", "T", "o", "t", "a", "l", " ", "A", "C", "H">>
F_REQUIRED_VENT ==
    <<"R", "e", "q", "u", "i", "r", "e", "d", " ", "V", "e", "n", "t", " ", "C", "F", "M">>
F_COOLING_LOAD ==
    <<"C", "o", "o", "l", "i", "n", "g", " ", "L", "o", "a", "d", " ", "C", "F", "M">>
F_DESIGN_SUPPLY ==
    <<"D", "e", "s", "i", "g", "n", " ", "S", "u", "p", "p", "l", "y", " ", "C", "F", "M">>
F_RETURN ==
    <<"R", "e", "t", "u", "r", "n", " ", "C", "F", "M">>
F_EXHAUST ==
    <<"E", "x", "h", "a", "u", "s", "t", " ", "C", "F", "M">>
F_PRESSURE ==
    <<"P", "r", "e", "s", "s", "u", "r", "e">>
T_SELECT ==
    <<"S", "e", "l", "e", "c", "t", ".", ".", ".">>

(***************************************************************************)
(* load_code_standards (lines 7-36)                                        *)
(***************************************************************************)
\* line 25.  Python parses  a and b and c or d  as  (a and b and c) or d.
IsMarker(val) ==
    (NotNa(val) /\ IsStr(val) /\ Contains(T_TABLE, Upper(val.s)))
    \/ Contains(T_FGI, Upper(StrOf(val)))

\* standards[key] = value  on a dict kept as the sequence of its entries in
\* insertion order: an existing key keeps its place and gets the new value.
DictSet(dct, key, value) ==
    IF \E i \in 1..Len(dct) : dct[i].key = key
    THEN [i \in 1..Len(dct) |->
            IF dct[i].key = key THEN [key |-> key, val |-> value] ELSE dct[i]]
    ELSE Append(dct, [key |-> key, val |-> value])

DictHas(dct, key) == \E i \in 1..Len(dct) : dct[i].key = key

DictGet(dct, key) == dct[CHOOSE i \in 1..Len(dct) : dct[i].key = key].val

\* list(standards_map.keys())
DictKeys(dct) == [i \in 1..Len(dct) |-> dct[i].key]

\* lines 19-21
ScanInit == [standards |-> <<>>, current_std |-> None, start_col |-> 0]

\* ScanStep closing the open standard one column early, at i - 1
ScanStep_m(st, i, val) ==
    IF IsMarker(val)
    THEN [standards |-> IF Truthy(st.current_std)
                        THEN DictSet(st.standards, st.current_std, <<st.start_col, i - 1>>)
                        ELSE st.standards,
          current_std |-> val,
          start_col |-> i]
    ELSE st

\* lines 25-30: one iteration of the loop, at column i (0-based) holding val
ScanStep(st, i, val) ==
    IF IsMarker(val)
    THEN [standards |-> IF Truthy(st.current_std)
                        THEN DictSet(st.standards, st.current_std, <<st.start_col, i>>)
                        ELSE st.standards,
          current_std |-> val,
          start_col |-> i]
    ELSE st

\* line 24: the loop over the columns i, i+1, ... of header_row
RECURSIVE ScanRow(_, _, _)
ScanRow(header_row, i, st) ==
    IF i >= Len(header_row) THEN st
    ELSE ScanRow(header_row, i + 1, ScanStep(st, i, header_row[i + 1]))

\* lines 32-34
CaptureLast(st, ncols) ==
    IF Truthy(st.current_std)
    THEN DictSet(st.standards, st.current_std, <<st.start_col, ncols>>)
    ELSE st.standards

\* the standards mapping returned for the grid (its row 0 is grid[1])
load_code_standards(grid) ==
    LET header_row == grid[1]
    IN  CaptureLast(ScanRow(header_row, 0, ScanInit), Len(header_row))

(***************************************************************************)
(* extract_standard_data (lines 38-57)                                     *)
(***************************************************************************)
Min(a, b) == IF a <= b THEN a ELSE b

\* line 44: row[start_col:end_col], a Python slice with bounds >= 0
SliceCols(r, start_col, end_col) ==
    SubSeq(r, Min(start_col, Len(r)) + 1, Min(end_col, Len(r)))

\* line 51: str(c).strip().replace('\n', ' ')
CleanName(c) == ReplaceNewline(Strip(StrOf(c)))

\* DropHeaderRows dropping row 0 alone
DropHeaderRows_m(rows) == SubSeq(rows, 2, Len(rows))

\* line 48: drop([0, 1]).reset_index(drop=True)
DropHeaderRows(rows) == SubSeq(rows, 3, Len(rows))

ColumnIndex(columns, name) == CHOOSE i \in 1..Len(columns) : columns[i] = name

\* lines 54-55
FilterRoomName(columns, rows) ==
    IF HasKey(columns, COL_ROOM_NAME)
    THEN LET j == ColumnIndex(columns, COL_ROOM_NAME)
             Named(r) == NotNa(r[j])
         IN  SelectSeq(rows, Named)
    ELSE rows

\* The frame returned, or the IndexError that  df_std.iloc[1]  (line 47)
\* raises for a grid of fewer than two rows.
extract_standard_data(grid, start_col, end_col) ==
    IF Len(grid) < 2
    THEN [err |-> "IndexError", columns |-> <<>>, rows |-> <<>>]
    ELSE LET sliced == [i \in 1..Len(grid) |-> SliceCols(grid[i], start_col, end_col)]
             header == sliced[2]
             columns == [i \in 1..Len(header) |-> CleanName(header[i])]
         IN  [err |-> "",
              columns |-> columns,
              rows |-> FilterRoomName(columns, DropHeaderRows(sliced))]

(***************************************************************************)
(* Input domains                                                           *)
(***************************************************************************)
MaxCols == 3

GridCols == 2

GridRows == 4

PipeCols == 2

PipeRows == 3

NoFrame == [err |-> "", columns |-> <<>>, rows |-> <<>>]

\* cells of row 0: missing, markers by "TABLE" (any case) and by "FGI", text
\* that is no marker, a number
T_TableA == <<"T", "a", "b", "l", "e", " ", "A">>

T_tableB == <<"t", "a", "b", "l", "e", " ", "B">>

T_fgi == <<"f", "g", "i", "1">>

T_Notes == <<"N", "o", "t", "e", "s">>

HeaderCells == {NaN, Str(T_TableA), Str(T_tableB), Str(T_fgi), Str(T_Notes), Num(2019)}

\* cells of row 1 (field headers) and of the data rows
T_RoomNameRaw == <<" ", "R", "O", "O", "M", "\n", "N", "A", "M", "E", " ">>

T_ACH == <<"A", "C", "H">>

T_ICU == <<"I", "C", "U">>

T_OR == <<"O", "R">>

FieldCells == {Str(COL_ROOM_NAME), Str(T_RoomNameRaw), Str(T_ACH), NaN}

DataCells == {NaN, Str(T_ICU)}

\* a block's field headers name ROOM NAME at most once
OneRoomName(h) == Cardinality({i \in 1..Len(h) : CleanName(h[i]) = COL_ROOM_NAME}) <= 1

\* df_raw is a grid of 1..ncols columns and 1..nrows rows: row 0 of cells of
\* H0, row 1 of cells of H1, data rows of cells of D
IsGridOf(ncols, nrows, H0, H1, D) ==
    \E c \in 1..ncols :
        \E h0 \in [1..c -> H0] :
            \/ df_raw = <<h0>>
            \/ \E m \in 0..(nrows - 2) :
                  \E h1 \in [1..c -> H1], body \in [1..m -> [1..c -> D]] :
                      /\ OneRoomName(h1)
                      /\ df_raw = <<h0, h1>> \o body

(***************************************************************************)
(* SpecSegment: load_code_standards applied to every first row              *)
(***************************************************************************)
Idle ==
    /\ rng = <<0, 0>>
    /\ standards_map = <<>>
    /\ selected_std_name = None
    /\ df_std = NoFrame
    /\ available_types = <<>>
    /\ edited_df = NoFrame
    /\ sat = Num(0)
    /\ k = 0
    /\ results = <<>>
    /\ final_df = NoFrame
    /\ locals = <<>>
    /\ err = ""

InitSegment ==
    /\ pc = "segment"
    /\ \E c \in 1..MaxCols : \E h \in [1..c -> HeaderCells] : df_raw = <<h>>
    /\ Idle

\* line 148
LoadCodeStandards ==
    /\ pc = "segment"
    /\ pc' = "segmented"
    /\ standards_map' = load_code_standards(df_raw)
    /\ UNCHANGED <<df_raw, rng, selected_std_name, df_std, available_types,
                   edited_df, sat, k, results, final_df, locals, err>>

NextSegment == LoadCodeStandards

SpecSegment == InitSegment /\ [][NextSegment]_vars

(***************************************************************************)
(* SpecExtract: extract_standard_data applied to every grid and range       *)
(***************************************************************************)
InitExtract ==
    /\ pc = "extract"
    /\ IsGridOf(GridCols, GridRows, {Str(T_TableA)}, FieldCells, DataCells)
    /\ \E a \in 0..Len(df_raw[1]) : \E b \in a..Len(df_raw[1]) : rng = <<a, b>>
    /\ standards_map = <<>>
    /\ selected_std_name = None
    /\ df_std = NoFrame
    /\ available_types = <<>>
    /\ edited_df = NoFrame
    /\ sat = Num(0)
    /\ k = 0
    /\ results = <<>>
    /\ final_df = NoFrame
    /\ locals = <<>>
    /\ err = ""

\* line 155
ExtractStandardData ==
    /\ pc = "extract"
    /\ pc' = "extracted"
    /\ df_std' = extract_standard_data(df_raw, rng[1], rng[2])
    /\ UNCHANGED <<df_raw, rng, standards_map, selected_std_name, available_types,
                   edited_df, sat, k, results, final_df, locals, err>>

NextExtract == ExtractStandardData

SpecExtract == InitExtract /\ [][NextExtract]_vars

(***************************************************************************)
(* Spec: the script from the upload of the reference file to the list of   *)
(* room types (lines 146-174)                                              *)
(***************************************************************************)
Init ==
    /\ pc = "start"
    /\ IsGridOf(PipeCols, PipeRows, {NaN, Str(T_TableA), Str(T_fgi)},
                {Str(T_RoomNameRaw), Str(T_ACH)}, DataCells)
    /\ Idle

\* line 148
LoadStandards ==
    /\ pc = "start"
    /\ pc' = "select"
    /\ standards_map' = load_code_standards(df_raw)
    /\ UNCHANGED <<df_raw, rng, selected_std_name, df_std, available_types,
                   edited_df, sat, k, results, final_df, locals, err>>

\* line 151: st.selectbox returns the option the user picked, and None when it
\* is given no options.
SelectStandard ==
    /\ pc = "select"
    /\ pc' = "lookup"
    /\ IF standards_map = <<>>
       THEN selected_std_name' = None
       ELSE \E i \in 1..Len(standards_map) :
                selected_std_name' = DictKeys(standards_map)[i]
    /\ UNCHANGED <<df_raw, rng, standards_map, df_std, available_types,
                   edited_df, sat, k, results, final_df, locals, err>>

\* lines 154-155: standards_map[selected_std_name] raises KeyError for a key
\* the mapping lacks; extract_standard_data may raise IndexError.
ExtractSelected ==
    /\ pc = "lookup"
    /\ IF ~DictHas(standards_map, selected_std_name)
       THEN /\ pc' = "crashed"
            /\ err' = "KeyError: None"
            /\ UNCHANGED <<rng, df_std>>
       ELSE LET r == DictGet(standards_map, selected_std_name)
                t == extract_standard_data(df_raw, r[1], r[2])
            IN  /\ rng' = r
                /\ df_std' = t
                /\ pc' = IF t.err = "" THEN "extracted" ELSE "crashed"
                /\ err' = t.err
    /\ UNCHANGED <<df_raw, standards_map, selected_std_name, available_types,
                   edited_df, sat, k, results, final_df, locals>>

\* the distinct elements of s, in the order of their first occurrence
RECURSIVE Unique(_)
Unique(s) ==
    IF s = <<>> THEN <<>>
    ELSE LET init == Unique(SubSeq(s, 1, Len(s) - 1))
             x == s[Len(s)]
         IN  IF \E i \in 1..Len(init) : init[i] = x THEN init ELSE Append(init, x)

\* line 174: df_std['ROOM NAME'].dropna().unique().tolist(); KeyError when
\* the frame has no such column.
ListRoomTypes ==
    /\ pc = "extracted"
    /\ IF ~HasKey(df_std.columns, COL_ROOM_NAME)
       THEN /\ pc' = "crashed"
            /\ err' = "KeyError: ROOM NAME"
            /\ UNCHANGED available_types
       ELSE LET j == ColumnIndex(df_std.columns, COL_ROOM_NAME)
                names == [i \in 1..Len(df_std.rows) |-> df_std.rows[i][j]]
            IN  /\ available_types' = Unique(SelectSeq(names, NotNa))
                /\ pc' = "assign"
                /\ UNCHANGED err
    /\ UNCHANGED <<df_raw, rng, standards_map, selected_std_name, df_std,
                   edited_df, sat, k, results, final_df, locals>>

Next == LoadStandards \/ SelectStandard \/ ExtractSelected \/ ListRoomTypes

Spec == Init /\ [][Next]_vars

(***************************************************************************)
(* Claims about segmentation and extraction                                *)
(***************************************************************************)
\* the 0-based columns of header row h that hold a marker
MarkerCols(h) == {i \in 0..(Len(h) - 1) : IsMarker(h[i + 1])}

SetMin(S) == CHOOSE x \in S : \A y \in S : x <= y

SetMax(S) == CHOOSE x \in S : \A y \in S : y <= x

\* C1: the ranges returned by load_code_standards partition
\* [firstMarkerColumn, columnCount): every column from the first marker column
\* on lies in exactly one range, no range reaches outside or is empty, and the
\* range of the last marker ends at columnCount.
C1_RangesPartition ==
    pc = "segmented" =>
        LET h == df_raw[1]
            m == MarkerCols(h)
        IN  m # {} =>
              /\ \A c \in SetMin(m)..(Len(h) - 1) :
                    Cardinality({i \in 1..Len(standards_map) :
                        standards_map[i].val[1] <= c /\ c < standards_map[i].val[2]}) = 1
              /\ \A i \in 1..Len(standards_map) :
                    /\ SetMin(m) <= standards_map[i].val[1]
                    /\ standards_map[i].val[1] < standards_map[i].val[2]
                    /\ standards_map[i].val[2] <= Len(h)
              /\ DictHas(standards_map, h[SetMax(m) + 1])
              /\ DictGet(standards_map, h[SetMax(m) + 1])[2] = Len(h)

\* the partition does hold when no two markers carry the same text
DistinctMarkerTexts(h) ==
    \A i, j \in MarkerCols(h) : i # j => h[i + 1] # h[j + 1]

C1_PartitionWhenDistinct ==
    (pc = "segmented" /\ ~DistinctMarkerTexts(df_raw[1])) \/ C1_RangesPartition

\* the block of grid row i (1-based) cut by rng
Block(i) == SliceCols(df_raw[i], rng[1], rng[2])

\* the 1-based grid columns of the block whose cleaned header is ROOM NAME
RoomNameCols ==
    {j \in (rng[1] + 1)..Min(rng[2], Len(df_raw[1])) :
        CleanName(df_raw[2][j]) = COL_ROOM_NAME}

\* the j-th smallest element of S
Nth(S, j) == CHOOSE x \in S : Cardinality({y \in S : y < x}) = j - 1

\* df_std holds exactly the blocks of the grid rows in kept, in grid order
RowsAre(kept) ==
    /\ Len(df_std.rows) = Cardinality(kept)
    /\ \A j \in 1..Len(df_std.rows) : df_std.rows[j] = Block(Nth(kept, j))

\* C9 as stated: the table holds no block of grid rows 0 and 1 and no row
\* whose ROOM NAME field is missing (the block has no such column, or the
\* cell is missing); every other row of the block is in it, in grid order.
C9_AsStated ==
    (pc = "extracted" /\ df_std.err = "") =>
        RowsAre({i \in 3..Len(df_raw) :
                    \E j \in RoomNameCols : NotNa(df_raw[i][j])})

\* C9 amended: rows 0 and 1 are never in the table; when the block has a
\* ROOM NAME column the table holds exactly the other rows whose ROOM NAME
\* cell is not missing, and when it has none it holds every other row; grid
\* order is kept.
C9_HeaderAndBlankRowsDropped ==
    (pc = "extracted" /\ df_std.err = "") =>
        RowsAre({i \in 3..Len(df_raw) :
                    \A j \in RoomNameCols : NotNa(df_raw[i][j])})

\* a two-column block with a ROOM NAME column: the first data row has no
\* name and was dropped, the second has one and was kept
C9_Witness ==
    /\ pc = "extracted"
    /\ df_std.err = ""
    /\ RoomNameCols # {}
    /\ Len(df_std.columns) = 2
    /\ Len(df_raw) = 4
    /\ \E j \in RoomNameCols : ~NotNa(df_raw[3][j]) /\ NotNa(df_raw[4][j])
    /\ df_std.rows = <<Block(4)>>

\* C7: with no marker in row 0 the mapping is empty and the run goes on
\* without raising.
C7_NoMarkerNoError ==
    (pc # "start" /\ MarkerCols(df_raw[1]) = {}) =>
        (standards_map = <<>> /\ err = "" /\ pc # "crashed")

\* extraction of the selected range has run
HasExtracted ==
    \/ pc \in {"extracted", "assign"}
    \/ pc = "crashed" /\ err \in {"IndexError", "KeyError: ROOM NAME"}

\* the selected standard starts at a marker that the next column follows
\* with another marker
AdjacentSelected ==
    /\ HasExtracted
    /\ rng[1] + 1 < Len(df_raw[1])
    /\ IsMarker(df_raw[1][rng[1] + 1])
    /\ IsMarker(df_raw[1][rng[1] + 2])

\* C10 as stated: the first of two adjacent markers gets a zero-width range
\* and its extraction is an empty table, not an error.
C10_AsStated ==
    AdjacentSelected =>
        /\ rng[1] = rng[2]
        /\ df_std.err = ""
        /\ (df_std.columns = <<>> \/ df_std.rows = <<>>)

\* C10 amended: no range of the mapping is zero-width; the range recorded
\* for a marker at column i that a marker follows at i+1 is [i, i+1); and
\* extracting it from a grid of at least two rows gives, without error, a
\* table of exactly one column.
C10_OneColumnRange ==
    /\ pc # "start" =>
         \A i \in 1..Len(standards_map) :
            LET r == standards_map[i].val
            IN  /\ r[1] < r[2]
                /\ (r[1] + 1 < Len(df_raw[1]) /\ IsMarker(df_raw[1][r[1] + 2]))
                      => r[2] = r[1] + 1
    /\ AdjacentSelected =>
         /\ rng[2] = rng[1] + 1
         /\ Len(df_raw) >= 2 =>
              (df_std.err = "" /\ Len(df_std.columns) = 1
               /\ \A j \in 1..Len(df_std.rows) : Len(df_std.rows[j]) = 1)

C10_Witness ==
    /\ AdjacentSelected
    /\ Len(df_raw) >= 3
    /\ df_std.err = ""
    /\ Len(df_std.rows) = 1

(***************************************************************************)
(* calculate_airflow (lines 59-130)                                        *)
(***************************************************************************)
SafetyDeltaT == 20

DefaultDesignTemp == 72

\* Whether float(s) accepts the text s.  Modelled for optionally signed
\* decimal integers with surrounding whitespace; the cell alphabets hold no
\* fractions, exponents or spellings of infinity and NaN.
FloatParses(s) ==
    LET t == Strip(s)
        body == IF t # <<>> /\ t[1] \in {"-", "+"} THEN Tail(t) ELSE t
    IN  body # <<>> /\ \A i \in 1..Len(body) : IsDigit(body[i])

FloatOfText(s) ==
    LET t == Strip(s)
    IN  IF t[1] = "-" THEN Num(-TextToNat(Tail(t)))
        ELSE IF t[1] = "+" THEN Num(TextToNat(Tail(t)))
        ELSE Num(TextToNat(t))

\* try: float(val)  except: 0.0   (lines 74-78 and 106-109).  float() of a
\* missing value (NaN) is NaN and raises nothing; float(None) and float() of
\* text that is no number raise.
FloatOrZero(val) ==
    CASE val.k = "num" -> val
      [] val.k = "nan" -> NaN
      [] val.k = "none" -> Num(0)
      [] OTHER -> IF FloatParses(val.s) THEN FloatOfText(val.s) ELSE Num(0)

get_num(val) == FloatOrZero(val)

\* Python's max(a, b): b when b > a, else a
PyMax(a, b) == IF FGt(b, a) THEN b ELSE a

\* elementwise  ==  of a frame column with a scalar: missing values equal
\* nothing
CellEq(a, b) == NotNa(a) /\ NotNa(b) /\ a = b

\* line 69
ErrorSeries == [index |-> <<F_ERROR>>, vals |-> <<Str(MSG_NOT_FOUND)>>]

\* LookupRows without the comparison: every record is taken for a match
LookupRows_m(standard_data, room_type) == standard_data.rows

\* line 66: the rows of standard_data whose ROOM NAME equals room_type
LookupRows(standard_data, room_type) ==
    LET j == ColumnIndex(standard_data.columns, COL_ROOM_NAME)
        Matches(r) == CellEq(r[j], room_type)
    IN  SelectSeq(standard_data.rows, Matches)

\* ClampDeltaT replacing negative differences only
ClampDeltaT_m(delta_t) == IF FLt(delta_t, Num(0)) THEN Num(SafetyDeltaT) ELSE delta_t

\* lines 94-95
ClampDeltaT(delta_t) == IF FLe(delta_t, Num(0)) THEN Num(SafetyDeltaT) ELSE delta_t

\* PressureBalance clamping the difference at zero
PressureBalance_m(is_100_exhaust, design_supply, offset) ==
    LET diff == FSub(design_supply, offset)
        clamped == IF FLt(diff, Num(0)) THEN Num(0) ELSE diff
    IN  IF is_100_exhaust THEN <<Num(0), clamped>> ELSE <<clamped, Num(0)>>

\* lines 111-119: <<return_cfm, exhaust_cfm>>
PressureBalance(is_100_exhaust, design_supply, offset) ==
    IF is_100_exhaust
    THEN <<Num(0), FSub(design_supply, offset)>>
    ELSE <<FSub(design_supply, offset), Num(0)>>

\* lines 121-130
SuccessSeries(room_type, min_total_ach, vent, cooling, design, ret, exh, pressure) ==
    [index |-> <<F_STANDARD_USED, F_MIN_TOTAL_ACH, F_REQUIRED_VENT, F_COOLING_LOAD,
                 F_DESIGN_SUPPLY, F_RETURN, F_EXHAUST, F_PRESSURE>>,
     vals |-> <<room_type, min_total_ach, PyRound(vent), PyRound(cooling),
                PyRound(design), PyRound(ret), PyRound(exh), pressure>>]

\* lines 71-119 for the matched record code_req
Requirements(row, sat_, code_req, room_type) ==
    LET min_total_ach == get_num(SeriesGet(code_req, COL_MIN_TOTAL_ACH, Num(0)))
        min_oa_ach == get_num(SeriesGet(code_req, COL_MIN_OA_ACH, Num(0)))
        pressure_req == SeriesGet(code_req, COL_PRESSURE, Str(T_NR))
        volume == get_num(SeriesGet(row, COL_ROOM_VOLUME, Num(0)))
        min_supply_vent_cfm == FDiv(FMul(min_total_ach, volume), Num(60))
        min_oa_vent_cfm == FDiv(FMul(min_oa_ach, volume), Num(60))
        cooling_load == get_num(SeriesGet(row, COL_COOLING_LOAD, Num(0)))
        design_temp ==
            get_num(SeriesGet(code_req, COL_DESIGN_TEMP, Num(DefaultDesignTemp)))
        delta_t == ClampDeltaT(FSub(design_temp, sat_))
        divisor == FMul(Rat(108, 100), delta_t)
        offset == FloatOrZero(SeriesGet(code_req, COL_OFFSET, Num(0)))
        is_100_exhaust ==
            Upper(StrOf(SeriesGet(code_req, COL_EXHAUST, Str(T_NO)))) = T_YES
    IN  IF IsZero(divisor)
        THEN [err |-> "ZeroDivisionError", series |-> ErrorSeries, locals |-> <<>>]
        ELSE LET cooling_demand_cfm == FDiv(cooling_load, divisor)
                 design_supply == PyMax(min_supply_vent_cfm, cooling_demand_cfm)
                 balance == PressureBalance(is_100_exhaust, design_supply, offset)
             IN  [err |-> "",
                  series |-> SuccessSeries(room_type, min_total_ach,
                                 min_supply_vent_cfm, cooling_demand_cfm,
                                 design_supply, balance[1], balance[2], pressure_req),
                  locals |-> [code_req |-> code_req,
                              min_total_ach |-> min_total_ach,
                              min_oa_ach |-> min_oa_ach,
                              volume |-> volume,
                              min_supply_vent_cfm |-> min_supply_vent_cfm,
                              min_oa_vent_cfm |-> min_oa_vent_cfm,
                              cooling_load |-> cooling_load,
                              design_temp |-> design_temp,
                              delta_t |-> delta_t,
                              divisor |-> divisor,
                              cooling_demand_cfm |-> cooling_demand_cfm,
                              design_supply |-> design_supply,
                              offset |-> offset,
                              is_100_exhaust |-> is_100_exhaust,
                              return_cfm |-> balance[1],
                              exhaust_cfm |-> balance[2]]]

\* The Series returned for one room (series), the values of the function's
\* local variables (locals), and the exception raised, if any (err).
calculate_airflow(row, sat_, standard_data) ==
    LET room_type == SeriesGet(row, COL_ASSIGNED, None)
    IN  IF ~HasKey(standard_data.columns, COL_ROOM_NAME)
        THEN [err |-> "KeyError: ROOM NAME", series |-> ErrorSeries, locals |-> <<>>]
        ELSE LET code_req == LookupRows(standard_data, room_type)
             IN  IF code_req = <<>>
                 THEN [err |-> "", series |-> ErrorSeries, locals |-> <<>>]
                 ELSE Requirements(row, sat_,
                          [index |-> standard_data.columns, vals |-> code_req[1]],
                          room_type)

(***************************************************************************)
(* SpecCalc: calculate_airflow applied to one room, a supply-air            *)
(* temperature and a standard table that has a ROOM NAME column (the script *)
(* reaches the calculation only past line 174)                              *)
(***************************************************************************)
MaxTableRows == 2

T_n_a == <<"n", "/", "a">>

T_yes == <<"y", "e", "s">>

T_P == <<"P">>

T_101 == <<"1", "0", "1">>

StandardColumns ==
    <<COL_ROOM_NAME, COL_MIN_TOTAL_ACH, COL_MIN_OA_ACH, COL_PRESSURE,
      COL_DESIGN_TEMP, COL_OFFSET, COL_EXHAUST>>

\* requirement rows for ICU: every numeric field missing, text or a number
IcuRows ==
    {<<Str(T_ICU), ach, Str(<<"2">>), Str(T_P), temp, offset, exhaust>> :
        ach \in {NaN, Str(T_NR), Str(<<"6">>)},
        temp \in {NaN, Str(<<"7", "2">>), Str(<<"5", "0">>)},
        offset \in {NaN, Str(T_NR), Str(<<"5", "0">>), Str(<<"2", "0", "0", "0">>)},
        exhaust \in {NaN, Str(T_YES), Str(T_yes), Str(T_NO)}}

\* rows that stand before the one under test: another ICU row and an OR row
FillerRows ==
    {<<Str(T_ICU), Str(<<"1", "2">>), Str(<<"2">>), Str(T_P), Str(<<"6", "8">>),
       Str(<<"0">>), Str(T_NO)>>,
     <<Str(T_OR), Str(<<"2", "0">>), Str(<<"4">>), Str(T_P), Str(<<"6", "8">>),
       Str(<<"0">>), Str(T_YES)>>}

\* frame without its j-th column (j = 0: the frame itself)
DropColumn(frame, j) ==
    LET Cut(s) == [i \in 1..(Len(s) - 1) |-> IF i < j THEN s[i] ELSE s[i + 1]]
    IN  IF j = 0 THEN frame
        ELSE [err |-> "", columns |-> Cut(frame.columns),
              rows |-> [i \in 1..Len(frame.rows) |-> Cut(frame.rows[i])]]

\* df_std is a table of at most MaxTableRows records: filler rows, then
\* possibly one of IcuRows; with every column, or without the minimum total
\* ACH, the design temperature or the 100% Exhaust column
IsStandardTable ==
    \E m \in 0..(MaxTableRows - 1) :
        \E pre \in [1..m -> FillerRows], last \in {<<>>} \cup {<<r>> : r \in IcuRows},
           j \in {0, 2, 5, 7} :
            df_std = DropColumn([err |-> "", columns |-> StandardColumns,
                                 rows |-> pre \o last], j)

EditedColumns ==
    <<COL_ROOM_NUMBER, COL_ARCH_ROOM_NAME, COL_ROOM_VOLUME, COL_COOLING_LOAD,
      COL_ASSIGNED>>

RoomRows ==
    {<<Str(T_101), Str(T_Notes), volume, load, type>> :
        volume \in {NaN, Str(T_n_a), Num(600)},
        load \in {NaN, Num(0), Num(10800)},
        type \in {Str(T_ICU), Str(T_OR), Str(T_SELECT), None}}

InitCalc ==
    /\ pc = "calc"
    /\ IsStandardTable
    /\ \E r \in RoomRows : edited_df = [err |-> "", columns |-> EditedColumns, rows |-> <<r>>]
    /\ sat \in {Num(55), Num(72)}
    /\ df_raw = <<>>
    /\ rng = <<0, 0>>
    /\ standards_map = <<>>
    /\ selected_std_name = None
    /\ available_types = <<>>
    /\ k = 0
    /\ results = <<>>
    /\ final_df = NoFrame
    /\ locals = <<>>
    /\ err = ""

RowSeries(frame, i) == [index |-> frame.columns, vals |-> frame.rows[i]]

CalculateAirflow ==
    /\ pc = "calc"
    /\ pc' = "done"
    /\ LET r == calculate_airflow(RowSeries(edited_df, 1), sat, df_std)
       IN  /\ results' = <<r.series>>
           /\ locals' = r.locals
           /\ err' = r.err
    /\ UNCHANGED <<df_raw, rng, standards_map, selected_std_name, df_std,
                   available_types, edited_df, sat, k, final_df>>

NextCalc == CalculateAirflow

SpecCalc == InitCalc /\ [][NextCalc]_vars

(***************************************************************************)
(* Claims about calculate_airflow                                          *)
(***************************************************************************)
Res == results[1]

RoomType == edited_df.rows[1][5]

\* some record of the table carries the room's assigned type as ROOM NAME
MatchExists ==
    \E i \in 1..Len(df_std.rows) :
        df_std.rows[i][ColumnIndex(df_std.columns, COL_ROOM_NAME)] = RoomType

Success == pc = "done" /\ err = "" /\ ~HasKey(Res.index, F_ERROR)

SuccessFields ==
    {F_STANDARD_USED, F_MIN_TOTAL_ACH, F_REQUIRED_VENT, F_COOLING_LOAD,
     F_DESIGN_SUPPLY, F_RETURN, F_EXHAUST, F_PRESSURE}

\* C2: without a match the result is exactly the record with the single field
\* Error = 'Room Type Not Found' (no CFM field, Min Total ACH, Standard Used
\* or Pressure); with a match it is a success record without an Error field.
C2_NotFoundIsTheOnlyError ==
    pc = "done" =>
        /\ err = ""
        /\ IF MatchExists
           THEN /\ ~HasKey(Res.index, F_ERROR)
                /\ \A f \in SuccessFields : HasKey(Res.index, f)
           ELSE /\ Res.index = <<F_ERROR>>
                /\ Res.vals = <<Str(MSG_NOT_FOUND)>>
                /\ \A f \in SuccessFields : ~HasKey(Res.index, f)

\* a table with records, none of them for the room's type
C2_Witness ==
    /\ pc = "done"
    /\ Len(df_std.rows) = 2
    /\ ~MatchExists
    /\ HasKey(Res.index, F_ERROR)

\* C3: in a success record the design supply airflow is the larger of
\* minTotalACH * volume / 60 and coolingLoad / (1.08 * deltaT): it is one of
\* the two and at least as large as both.
C3_DesignSupplyIsTheLarger ==
    Success =>
        LET vent == FDiv(FMul(locals.min_total_ach, locals.volume), Num(60))
            cool == FDiv(locals.cooling_load, FMul(Rat(108, 100), locals.delta_t))
        IN  /\ locals.design_supply \in {vent, cool}
            /\ FGe(locals.design_supply, vent)
            /\ FGe(locals.design_supply, cool)
            /\ SeriesGet(Res, F_DESIGN_SUPPLY, None) = PyRound(locals.design_supply)

\* the same holds whenever both airflows are numbers
C3_LargerWhenBothNumbers ==
    (Success /\ (IsNaN(locals.min_supply_vent_cfm) \/ IsNaN(locals.cooling_demand_cfm)))
    \/ C3_DesignSupplyIsTheLarger

\* C4: the cooling load is never divided by a number <= 0: the divisor is
\* 1.08 * deltaT, where deltaT is designCoolingTemp - sat when that is
\* positive and 20 whenever designCoolingTemp <= sat.
C4_DivisorNeverNonPositive ==
    /\ err # "ZeroDivisionError"
    /\ Success =>
         /\ locals.divisor = FMul(Rat(108, 100), locals.delta_t)
         /\ ~FLe(locals.divisor, Num(0))
         /\ FGt(FSub(locals.design_temp, sat), Num(0))
               => locals.delta_t = FSub(locals.design_temp, sat)
         /\ FLe(locals.design_temp, sat) => locals.delta_t = Num(20)
         /\ ~IsNaN(locals.design_temp) => FGt(locals.divisor, Num(0))

\* a design temperature equal to the supply-air temperature, with a load
C4_Witness ==
    /\ Success
    /\ locals.design_temp = sat
    /\ locals.delta_t = Num(20)
    /\ FGt(locals.cooling_demand_cfm, Num(0))

\* the record's '100% Exhaust' field is 'YES' in any case of letters
IsFullExhaust ==
    LET c == SeriesGet(locals.code_req, COL_EXHAUST, None)
    IN  c.k = "str" /\ Len(c.s) = 3 /\ Upper(c.s) = <<"Y", "E", "S">>

\* C5: for a 100% exhaust record returnCFM is 0 and exhaustCFM is
\* designSupplyCFM - offset, otherwise exhaustCFM is 0 and returnCFM is
\* designSupplyCFM - offset; the difference is not clamped, a negative value
\* reaches the record (rounded like every CFM field).
C5_PressureSplit ==
    Success =>
        LET diff == FSub(locals.design_supply, locals.offset)
            ret == SeriesGet(Res, F_RETURN, None)
            exh == SeriesGet(Res, F_EXHAUST, None)
        IN  IF IsFullExhaust
            THEN /\ locals.return_cfm = Num(0) /\ ret = Num(0)
                 /\ locals.exhaust_cfm = diff /\ exh = PyRound(diff)
            ELSE /\ locals.exhaust_cfm = Num(0) /\ exh = Num(0)
                 /\ locals.return_cfm = diff /\ ret = PyRound(diff)

\* an offset above the design supply: the exhaust airflow is negative
C5_Witness ==
    /\ Success
    /\ IsFullExhaust
    /\ FGt(locals.offset, locals.design_supply)
    /\ FLt(SeriesGet(Res, F_EXHAUST, None), Num(0))
    /\ SeriesGet(Res, F_RETURN, None) = Num(0)

\* a value float() cannot turn into a number: missing, or text that is none
Unparsable(c) == c.k \in {"nan", "none"} \/ (c.k = "str" /\ ~FloatParses(c.s))

\* C6: each numeric field that cannot be parsed (text that is no number, or
\* a missing value) is used as 0, and no non-number reaches a result field.
C6_UnparsableBecomesZero ==
    Success =>
        /\ Unparsable(SeriesGet(locals.code_req, COL_MIN_TOTAL_ACH, NaN))
              => locals.min_total_ach = Num(0)
        /\ Unparsable(SeriesGet(locals.code_req, COL_MIN_OA_ACH, NaN))
              => locals.min_oa_ach = Num(0)
        /\ Unparsable(SeriesGet(locals.code_req, COL_DESIGN_TEMP, NaN))
              => locals.design_temp = Num(0)
        /\ Unparsable(SeriesGet(locals.code_req, COL_OFFSET, NaN))
              => locals.offset = Num(0)
        /\ Unparsable(edited_df.rows[1][3]) => locals.volume = Num(0)
        /\ Unparsable(edited_df.rows[1][4]) => locals.cooling_load = Num(0)
        /\ \A f \in {F_MIN_TOTAL_ACH, F_REQUIRED_VENT, F_COOLING_LOAD,
                     F_DESIGN_SUPPLY, F_RETURN, F_EXHAUST} :
              SeriesGet(Res, f, None).k = "num"

\* text that is no number does become 0
C6_TextBecomesZero ==
    Success =>
        /\ (edited_df.rows[1][3].k = "str" /\ ~FloatParses(edited_df.rows[1][3].s))
              => locals.volume = Num(0)
        /\ LET c == SeriesGet(locals.code_req, COL_MIN_TOTAL_ACH, Num(0))
           IN  (c.k = "str" /\ ~FloatParses(c.s)) => locals.min_total_ach = Num(0)

(***************************************************************************)
(* SpecBatch: the batch of per-room calculations (lines 197-205) over the  *)
(* edited room list, from any state the script can be in at line 197        *)
(***************************************************************************)
MaxRooms == 2

BatchRooms ==
    {<<Str(T_101), Str(T_Notes), Num(600), load, type>> :
        load \in {Num(0), Num(10800)},
        type \in {Str(T_ICU), Str(T_OR), Str(T_SELECT)}}

InitBatch ==
    /\ pc = "batch"
    /\ \E m \in 0..MaxTableRows : \E rows \in [1..m -> FillerRows] :
          df_std = [err |-> "", columns |-> StandardColumns, rows |-> rows]
    /\ \E m \in 0..MaxRooms : \E rows \in [1..m -> BatchRooms] :
          edited_df = [err |-> "", columns |-> EditedColumns, rows |-> rows]
    /\ sat = Num(55)
    /\ df_raw = <<>>
    /\ rng = <<0, 0>>
    /\ standards_map = <<>>
    /\ selected_std_name = None
    /\ available_types = <<>>
    /\ k = 0
    /\ results = <<>>
    /\ final_df = NoFrame
    /\ locals = <<>>
    /\ err = ""

\* ContinueAfter ending the batch at a row whose result is the error record
ContinueAfter_m(series) == IF HasKey(series.index, F_ERROR) THEN "done" ELSE "batch"

\* line 202: DataFrame.apply goes on to the next row whatever Series the
\* function returned for this one.
ContinueAfter(series) == "batch"

\* line 202, one row: the function is applied to row k (0-based); an
\* exception it raises ends the run.
ApplyRow ==
    /\ pc = "batch"
    /\ k < Len(edited_df.rows)
    /\ LET r == calculate_airflow(RowSeries(edited_df, k + 1), sat, df_std)
       IN  IF r.err # ""
           THEN /\ pc' = "crashed"
                /\ err' = r.err
                /\ UNCHANGED <<k, results>>
           ELSE /\ results' = Append(results, r.series)
                /\ k' = k + 1
                /\ pc' = ContinueAfter(r.series)
                /\ UNCHANGED err
    /\ UNCHANGED <<df_raw, rng, standards_map, selected_std_name, df_std,
                   available_types, edited_df, sat, final_df, locals>>

RECURSIVE Flatten(_)
Flatten(ss) == IF ss = <<>> THEN <<>> ELSE Head(ss) \o Flatten(Tail(ss))

\* line 202, the frame apply builds of the Series: its columns are the union
\* of their labels (kept here in order of first appearance), a label a row's
\* Series lacks is a missing value; for no rows at all apply returns a copy
\* of the frame.  Line 205 puts ROOM NUMBER and ARCH ROOM NAME in front.
ConcatFrame(edited, series) ==
    IF edited.rows = <<>>
    THEN [err |-> "",
          columns |-> <<COL_ROOM_NUMBER, COL_ARCH_ROOM_NAME>> \o edited.columns,
          rows |-> <<>>]
    ELSE LET cols == Unique(Flatten([i \in 1..Len(series) |-> series[i].index]))
         IN  [err |-> "",
              columns |-> <<COL_ROOM_NUMBER, COL_ARCH_ROOM_NAME>> \o cols,
              rows |-> [i \in 1..Len(series) |->
                          <<SeriesGet(RowSeries(edited, i), COL_ROOM_NUMBER, NaN),
                            SeriesGet(RowSeries(edited, i), COL_ARCH_ROOM_NAME, NaN)>>
                          \o [j \in 1..Len(cols) |-> SeriesGet(series[i], cols[j], NaN)]]]

\* lines 202-205, after the last row
ConcatResults ==
    /\ pc = "batch"
    /\ k = Len(edited_df.rows)
    /\ pc' = "done"
    /\ final_df' = ConcatFrame(edited_df, results)
    /\ UNCHANGED <<df_raw, rng, standards_map, selected_std_name, df_std,
                   available_types, edited_df, sat, k, results, locals, err>>

NextBatch == ApplyRow \/ ConcatResults

SpecBatch == InitBatch /\ [][NextBatch]_vars

\* the result part of row i of final_df: the columns after the two room
\* columns
ResultPart(i) ==
    [index |-> SubSeq(final_df.columns, 3, Len(final_df.columns)),
     vals |-> SubSeq(final_df.rows[i], 3, Len(final_df.rows[i]))]

\* the table holds a record for the assigned type of room i
TypeKnown(i) ==
    \E j \in 1..Len(df_std.rows) :
        df_std.rows[j][ColumnIndex(df_std.columns, COL_ROOM_NAME)] = edited_df.rows[i][5]

\* C8: the batch never aborts; after it there is one result row per room,
\* each carrying exactly what calculate_airflow returns for that room alone
\* (a field that result lacks is left missing), and it is the error record
\* exactly for the rooms whose type the table lacks.
C8_OneIndependentResultPerRoom ==
    /\ pc # "crashed"
    /\ err = ""
    /\ pc = "done" =>
         /\ Len(final_df.rows) = Len(edited_df.rows)
         /\ \A i \in 1..Len(final_df.rows) :
              LET alone == calculate_airflow(RowSeries(edited_df, i), sat, df_std).series
                  part == ResultPart(i)
              IN  /\ final_df.rows[i][1] = edited_df.rows[i][1]
                  /\ \A j \in 1..Len(alone.index) :
                        SeriesGet(part, alone.index[j], None) = alone.vals[j]
                  /\ \A j \in 1..Len(part.index) :
                        ~HasKey(alone.index, part.index[j]) => part.vals[j] = NaN
                  /\ (SeriesGet(part, F_ERROR, NaN) = Str(MSG_NOT_FOUND)) <=> ~TypeKnown(i)

\* a room without a match ahead of a room with one: both have their result
C8_Witness ==
    /\ pc = "done"
    /\ Len(final_df.rows) = 2
    /\ ~TypeKnown(1)
    /\ TypeKnown(2)
    /\ SeriesGet(ResultPart(1), F_ERROR, NaN) = Str(MSG_NOT_FOUND)
    /\ SeriesGet(ResultPart(2), F_DESIGN_SUPPLY, NaN).k = "num"

=============================================================================
